---- MODULE Spec2Model ----
(***************************************************************************)
(* The PNG chunk codec of png-secret: ChunkType (src/chunk_type.rs) and    *)
(* Chunk (src/chunk.rs).                                                   *)
(*                                                                         *)
(* Representation of the machine integers:                                 *)
(*   u8     a number in 0..255                                             *)
(*   u32    <<hi, lo>>, two 16-bit limbs, value hi * 2^16 + lo             *)
(*   usize  <<l3, l2, l1, l0>>, four 16-bit limbs (a 64-bit target; on a   *)
(*          32-bit target l3 = l2 = 0 always)                              *)
(*   &[u8], Vec<u8>, [u8; 4]   sequences of u8                             *)
(*   &str   the sequence of the bytes of its UTF-8 encoding                *)
(***************************************************************************)
EXTENDS Integers, Sequences, FiniteSets, TLC

VARIABLES
    pc,         \* the last operation applied
    tagIn,      \* the [u8; 4] handed to ChunkType::try_from
    strIn,      \* the &str handed to ChunkType::from_str
    ctRes,      \* Result<ChunkType, ChunkTypeError> of the construction
    flags,      \* the accessors' answers for the constructed ChunkType
    chunk,      \* the Chunk built by Chunk::new
    bytes,      \* the buffer: chunk.as_bytes(), possibly altered by the caller
                \* (its first bytes, when it is too long to enumerate)
    bytesLen,   \* bytes.len()
    tamper,     \* what the caller did to the buffer
    res,        \* Result<Chunk, ChunkError> of Chunk::try_from(bytes)
    vecLen,     \* chunk_data.len() of a vector too long to enumerate
    vecHead,    \* the first bytes of that vector
    newLength   \* the length field Chunk::new derives for that vector

vars == <<pc, tagIn, strIn, ctRes, flags, chunk, bytes, bytesLen, tamper, res, vecLen, vecHead, newLength>>

(***************************************************************************)
(* Bounds of the inputs.                                                   *)
(***************************************************************************)
MaxLen == 2      \* longest enumerated chunk_data
MaxChars == 5    \* most characters in a string handed to from_str

(***************************************************************************)
(* Bit operations on unsigned integers of n bits.                          *)
(***************************************************************************)
RECURSIVE Pow2(_)
Pow2(n) == IF n = 0 THEN 1 ELSE 2 * Pow2(n - 1)

RECURSIVE BitXor(_, _, _)
BitXor(a, b, n) ==
    IF n = 0 THEN 0
    ELSE ((a + b) % 2) + 2 * BitXor(a \div 2, b \div 2, n - 1)

RECURSIVE BitAnd(_, _, _)
BitAnd(a, b, n) ==
    IF n = 0 THEN 0
    ELSE ((a % 2) * (b % 2)) + 2 * BitAnd(a \div 2, b \div 2, n - 1)

(***************************************************************************)
(* u32 and usize.                                                          *)
(***************************************************************************)
\* u32::MAX
U32Max == <<65535, 65535>>

\* a > b on u32
U32Gt(a, b) == a[1] > b[1] \/ (a[1] = b[1] /\ a[2] > b[2])

\* u32::from_be_bytes(buf)
from_be_bytes(buf) == <<buf[1] * 256 + buf[2], buf[3] * 256 + buf[4]>>

\* variant: the little-endian order, u32::to_le_bytes(u)
to_le_bytes(u) == <<u[2] % 256, u[2] \div 256, u[1] % 256, u[1] \div 256>>

\* u32::to_be_bytes(u)
to_be_bytes(u) == <<u[1] \div 256, u[1] % 256, u[2] \div 256, u[2] % 256>>

\* the usize of a small natural number (a length of an enumerated sequence)
Usize(n) == <<0, 0, (n \div 65536) % 65536, n % 65536>>

\* a < b on usize
UsizeLt(a, b) ==
    \E i \in 1..4 : a[i] < b[i] /\ \A j \in 1..(i - 1) : a[j] = b[j]

\* a + n on usize, n a small natural number (no overflow in the cases used)
UsizeAdd(a, n) ==
    LET s4 == a[4] + n
        s3 == a[3] + (s4 \div 65536)
        s2 == a[2] + (s3 \div 65536)
        s1 == a[1] + (s2 \div 65536)
    IN  <<s1 % 65536, s2 % 65536, s3 % 65536, s4 % 65536>>

\* a - n on usize, n a small natural number not above a
UsizeSub(a, n) ==
    LET d4 == a[4] - n
        d3 == a[3] - (IF d4 < 0 THEN 1 ELSE 0)
        d2 == a[2] - (IF d3 < 0 THEN 1 ELSE 0)
        d1 == a[1] - (IF d2 < 0 THEN 1 ELSE 0)
    IN  <<d1 % 65536, d2 % 65536, d3 % 65536, d4 % 65536>>

\* the natural number of a usize that is below 2^31
UsizeNat(u) == u[3] * 65536 + u[4]

\* variant: a cast through 16 bits, `len as u16 as u32`
AsU16AsU32(len) == <<0, len[4]>>

\* `len as u32`: the cast keeps the low 32 bits
AsU32(len) == <<len[3], len[4]>>

\* `length as usize`: the cast widens
AsUsize(u) == <<0, 0, u[1], u[2]>>

(***************************************************************************)
(* crc::Crc::<u32>::new(&CRC_32_ISO_HDLC).checksum(bytes): polynomial      *)
(* 0x04C11DB7, reflected in and out (0xEDB88320, the register shifts       *)
(* right), init 0xFFFFFFFF, xorout 0xFFFFFFFF; computed a byte at a time   *)
(* from the table of the 256 one-byte remainders.                          *)
(***************************************************************************)
\* a ^ b on u8, tabulated
Xor8 == [a \in 0..255 |-> [b \in 0..255 |-> BitXor(a, b, 8)]]

\* a ^ b on a 16-bit limb
Xor16(a, b) == Xor8[a \div 256][b \div 256] * 256 + Xor8[a % 256][b % 256]

\* a ^ b on u32
U32Xor(a, b) == <<Xor16(a[1], b[1]), Xor16(a[2], b[2])>>

\* one bit of the division: shift right, and subtract the polynomial when a 1 falls out
CrcShift(c) ==
    LET hi == c[1] \div 2
        lo == (c[2] \div 2) + (c[1] % 2) * 32768
    IN  IF c[2] % 2 = 1
        THEN <<BitXor(hi, 60856, 16), BitXor(lo, 33568, 16)>>
        ELSE <<hi, lo>>

RECURSIVE CrcBits(_, _)
CrcBits(c, k) == IF k = 0 THEN c ELSE CrcBits(CrcShift(c), k - 1)

\* the remainder of each byte
CrcTable == [n \in 0..255 |-> CrcBits(<<0, n>>, 8)]

\* one byte: table[(crc ^ b) & 0xFF] ^ (crc >> 8)
CrcByte(c, b) ==
    U32Xor(CrcTable[Xor8[c[2] % 256][b]],
           <<c[1] \div 256, (c[2] \div 256) + (c[1] % 256) * 256>>)

\* the loop over the bytes; st = <<crc register, index of the next byte>>
RECURSIVE CrcUpdate(_, _)
CrcUpdate(st, bs) ==
    IF st[2] > Len(bs) THEN st[1]
    ELSE CrcUpdate(<<CrcByte(st[1], bs[st[2]]), st[2] + 1>>, bs)

checksum(bs) == U32Xor(CrcUpdate(<<U32Max, 1>>, bs), U32Max)

(***************************************************************************)
(* ChunkType (src/chunk_type.rs).                                          *)
(***************************************************************************)
BadByte(b) == [kind |-> "BadByte", byte |-> b]
BadLength(s, n) == [kind |-> "BadLength", str |-> s, len |-> n]

Ok(v) == [ok |-> TRUE, val |-> v]
Err(e) == [ok |-> FALSE, err |-> e]
None == [ok |-> FALSE, err |-> [kind |-> "none"]]

ChunkType(data) == [data |-> data]

\* ChunkType::bytes
bytes_of(ct) == ct.data

\* ChunkType::is_valid_byte: u8::is_ascii_alphabetic
is_valid_byte(byte) == (byte >= 65 /\ byte <= 90) \/ (byte >= 97 /\ byte <= 122)

\* ChunkType::bit_is_zero: bit & (1 << n) == 0
bit_is_zero(bit, n) == BitAnd(bit, Pow2(n), 8) = 0

is_critical(ct) == bit_is_zero(bytes_of(ct)[1], 5)
is_public(ct) == bit_is_zero(bytes_of(ct)[2], 5)
is_reserved_bit_valid(ct) == bit_is_zero(bytes_of(ct)[3], 5)

\* variant: the polarity of the other three flags
is_safe_to_copy_same_polarity(ct) == bit_is_zero(bytes_of(ct)[4], 5)

is_safe_to_copy(ct) == ~bit_is_zero(bytes_of(ct)[4], 5)

\* variant: validity without the reserved bit
is_valid_alphabetic_only(ct) ==
    /\ is_valid_byte(bytes_of(ct)[1])
    /\ is_valid_byte(bytes_of(ct)[2])
    /\ is_valid_byte(bytes_of(ct)[3])
    /\ is_valid_byte(bytes_of(ct)[4])

is_valid(ct) ==
    /\ is_reserved_bit_valid(ct)
    /\ is_valid_byte(bytes_of(ct)[1])
    /\ is_valid_byte(bytes_of(ct)[2])
    /\ is_valid_byte(bytes_of(ct)[3])
    /\ is_valid_byte(bytes_of(ct)[4])

\* the loop `for byte in bytes`: the first byte that is not valid, from position i
RECURSIVE ScanBytes(_, _)
ScanBytes(bs, i) ==
    IF i > Len(bs) THEN Ok(bs)
    ELSE IF ~is_valid_byte(bs[i]) THEN Err(BadByte(bs[i]))
    ELSE ScanBytes(bs, i + 1)

\* variant: the scan from the last byte, reporting the last byte that is not valid
RECURSIVE ScanBytesLast(_, _)
ScanBytesLast(bs, i) ==
    IF i < 1 THEN Ok(bs)
    ELSE IF ~is_valid_byte(bs[i]) THEN Err(BadByte(bs[i]))
    ELSE ScanBytesLast(bs, i - 1)

ChunkTypeTryFromLastBad(bs) ==
    LET scan == ScanBytesLast(bs, Len(bs))
    IN  IF scan.ok THEN Ok(ChunkType(bs)) ELSE scan

\* impl TryFrom<[u8; 4]> for ChunkType
ChunkTypeTryFrom(bs) ==
    LET scan == ScanBytes(bs, 1)
    IN  IF scan.ok THEN Ok(ChunkType(bs)) ELSE scan

\* the loop of from_str: ret[i] = *b for the valid bytes, from ret = [0; 4]
RECURSIVE FillRet(_, _, _)
FillRet(s, ret, i) ==
    IF i > Len(s) THEN Ok(ret)
    ELSE IF is_valid_byte(s[i]) THEN FillRet(s, [ret EXCEPT ![i] = s[i]], i + 1)
    ELSE Err(BadByte(s[i]))

\* variant: the bytes checked before the length
ChunkTypeFromStrContentFirst(s) ==
    LET fill == FillRet(s, [i \in 1..Len(s) |-> 0], 1)
    IN  IF ~fill.ok THEN fill
        ELSE IF Len(s) # 4 THEN Err(BadLength(s, Len(s)))
        ELSE Ok(ChunkType(fill.val))

\* impl FromStr for ChunkType
ChunkTypeFromStr(s) ==
    IF Len(s) # 4 THEN Err(BadLength(s, Len(s)))
    ELSE LET fill == FillRet(s, <<0, 0, 0, 0>>, 1)
         IN  IF fill.ok THEN Ok(ChunkType(fill.val)) ELSE fill

(***************************************************************************)
(* Chunk (src/chunk.rs).                                                   *)
(***************************************************************************)
ReadError == [kind |-> "ReadError"]
MaxLengthError == [kind |-> "MaxLengthError"]
InvalidChunkType(e) == [kind |-> "InvalidChunkType", source |-> e]
InvalidChunkData(actual, expected) ==
    [kind |-> "InvalidChunkData", actual |-> actual, expected |-> expected]
InvalidCrc == [kind |-> "InvalidCrc"]

Chunk(length, chunk_type, chunk_data, crc) ==
    [length |-> length, chunk_type |-> chunk_type, chunk_data |-> chunk_data, crc |-> crc]

\* `let length = chunk_data.len() as u32`, of a vector of len bytes
NewLength(len) == AsU32(len)

\* variant: the crc of the data without the type bytes
ChunkNewCrcOfDataOnly(chunk_type, chunk_data) ==
    Chunk(NewLength(Usize(Len(chunk_data))), chunk_type, chunk_data, checksum(chunk_data))

\* Chunk::new
ChunkNew(chunk_type, chunk_data) ==
    Chunk(NewLength(Usize(Len(chunk_data))), chunk_type, chunk_data,
          checksum(bytes_of(chunk_type) \o chunk_data))

\* as_bytes up to the data: the length, the type, the (first) bytes of the data
as_bytes_head(length, chunk_type, data) ==
    to_be_bytes(length) \o bytes_of(chunk_type) \o data

\* Chunk::as_bytes
as_bytes(c) ==
    as_bytes_head(c.length, c.chunk_type, c.chunk_data) \o to_be_bytes(c.crc)

\* BufReader::new(bytes): the slice (its bytes, or its first bytes, and its
\* length) and the number of bytes consumed
BufReader(buf, len) == [buf |-> buf, len |-> len, pos |-> 0]

\* variant: Read::read, which fills what it can and leaves the rest of out zero
\* (for an out of fewer than 256 bytes; no buffer here holds more)
read_short(reader, n) ==
    LET remaining == UsizeSub(reader.len, reader.pos)
    IN  IF n[1] # 0 \/ n[2] # 0 \/ n[3] # 0 \/ n[4] >= 256 THEN Err(ReadError)
        ELSE LET k == UsizeNat(n)
                 got == IF UsizeLt(remaining, n) THEN UsizeNat(remaining) ELSE k
             IN  Ok([out |-> SubSeq(reader.buf, reader.pos + 1, reader.pos + got)
                             \o [i \in 1..(k - got) |-> 0],
                     reader |-> [reader EXCEPT !.pos = @ + got]])

\* reader.read_exact(&mut out), out of n bytes: all n bytes, or an error
read_exact(reader, n) ==
    LET remaining == UsizeSub(reader.len, reader.pos)
    IN  IF UsizeLt(remaining, n) THEN Err(ReadError)
        ELSE LET k == UsizeNat(n)
             IN  Ok([out |-> SubSeq(reader.buf, reader.pos + 1, reader.pos + k),
                     reader |-> [reader EXCEPT !.pos = @ + k]])

\* variants: a comparison of the low 16 bits, and no comparison
crc_low_half_differs(provided_crc, true_crc) == provided_crc[2] # true_crc[2]

crc_never_differs(provided_crc, true_crc) == provided_crc # provided_crc

\* `provided_crc != true_crc`
crc_differs(provided_crc, true_crc) == provided_crc # true_crc

\* try_from once length and chunk_type are read: the data, the crc, the result
TryFromPayload(reader, length, chunk_type) ==
    LET r3 == read_exact(reader, AsUsize(length))
    IN  IF ~r3.ok THEN r3
        ELSE LET chunk_data == r3.val.out
             IN  IF Usize(Len(chunk_data)) # AsUsize(length)
                 THEN Err(InvalidChunkData(Usize(Len(chunk_data)), AsUsize(length)))
                 ELSE LET r4 == read_exact(r3.val.reader, Usize(4))
                      IN  IF ~r4.ok THEN r4
                          ELSE LET provided_crc == from_be_bytes(r4.val.out)
                                   true_crc == checksum(bytes_of(chunk_type) \o chunk_data)
                               IN  IF crc_differs(provided_crc, true_crc)
                                   THEN Err(InvalidCrc)
                                   ELSE Ok(Chunk(length, chunk_type, chunk_data, provided_crc))

\* impl TryFrom<&[u8]> for Chunk, on a slice of len bytes that begins with bs
ChunkTryFrom(bs, len) ==
    LET r1 == read_exact(BufReader(bs, len), Usize(4))
    IN  IF ~r1.ok THEN r1
        ELSE LET length == from_be_bytes(r1.val.out)
             IN  IF U32Gt(length, U32Max) THEN Err(MaxLengthError)
                 ELSE LET r2 == read_exact(r1.val.reader, Usize(4))
                      IN  IF ~r2.ok THEN r2
                          ELSE LET ct == ChunkTypeTryFrom(r2.val.out)
                               IN  IF ~ct.ok THEN Err(InvalidChunkType(ct.err))
                                   ELSE TryFromPayload(r2.val.reader, length, ct.val)

(***************************************************************************)
(* The inputs.                                                             *)
(***************************************************************************)
\* the bytes around the edges of A-Z and a-z, a digit, a space, 0 and 255
EdgeBytes == {0, 32, 49, 64, 65, 90, 91, 96, 97, 122, 123, 255}

RuSt == <<82, 117, 83, 116>>
Rust == <<82, 117, 115, 116>>
ruSt == <<114, 117, 83, 116>>
RUSt == <<82, 85, 83, 116>>
RuST == <<82, 117, 83, 84>>
Ru1t == <<82, 117, 49, 116>>

\* the arrays handed to ChunkType::try_from
TagInputs == [1..4 -> EdgeBytes] \cup {RuSt, Rust, ruSt, RUSt, RuST, Ru1t}

\* the characters of the strings handed to from_str: R u S t 1 and U+00E9
StrChars == {<<82>>, <<117>>, <<83>>, <<116>>, <<49>>, <<195, 169>>}

RECURSIVE StrsOf(_)
StrsOf(k) ==
    IF k = 0 THEN {<<>>}
    ELSE LET shorter == StrsOf(k - 1)
         IN  shorter \cup {s \o c : s \in shorter, c \in StrChars}

StrInputs == StrsOf(MaxChars)

\* the chunk types chunks are built with
ChunkTags == {RuSt, Rust, RuST}

\* "This is where your secret message will be!"
TestMessage ==
    <<84, 104, 105, 115, 32, 105, 115, 32, 119, 104, 101, 114, 101, 32, 121, 111,
      117, 114, 32, 115, 101, 99, 114, 101, 116, 32, 109, 101, 115, 115, 97, 103,
      101, 32, 119, 105, 108, 108, 32, 98, 101, 33>>

DataBytes == {0, 84, 255}

DataInputs ==
    UNION {[1..n -> DataBytes] : n \in 0..MaxLen} \cup {TestMessage}

\* 2882656334 and 2882656333, the crc fields of the tests, and the extremes
TestCrc == <<43985, 55374>>
TestBadCrc == <<43985, 55373>>
CrcInputs == {TestCrc, TestBadCrc, <<0, 0>>, U32Max}

\* lengths of vectors too long to enumerate: 2^16, 2^31, 2^32 - 1, 2^32,
\* 2^32 + 2, 2^33 + 1, 2^48
VecLenInputs ==
    {<<0, 0, 1, 0>>, <<0, 0, 32768, 0>>, <<0, 0, 65535, 65535>>, <<0, 1, 0, 0>>,
     <<0, 1, 0, 2>>, <<0, 2, 0, 1>>, <<1, 0, 0, 0>>}

\* the first six bytes of such a vector: six equal bytes, or the crc of a chunk
\* type followed by zeros
VecHeadInputs ==
    {[i \in 1..6 |-> b] : b \in DataBytes}
        \cup {to_be_bytes(checksum(t)) \o <<0, 0>> : t \in ChunkTags}

NoTamper == [kind |-> "none", pos |-> 0, bit |-> 0]
NoFlags == [critical |-> FALSE, public |-> FALSE, reserved_bit_valid |-> FALSE,
            safe_to_copy |-> FALSE, valid |-> FALSE, queried |-> FALSE]

(***************************************************************************)
(* The operations.                                                         *)
(***************************************************************************)
Init ==
    /\ pc = "start"
    /\ tagIn = <<>>
    /\ strIn = <<>>
    /\ ctRes = None
    /\ flags = NoFlags
    /\ chunk = None
    /\ bytes = <<>>
    /\ bytesLen = Usize(0)
    /\ tamper = NoTamper
    /\ res = None
    /\ vecLen = Usize(0)
    /\ vecHead = <<>>
    /\ newLength = None

\* ChunkType::try_from(b)
TypeTryFrom ==
    /\ pc = "start"
    /\ \E b \in TagInputs :
        /\ tagIn' = b
        /\ ctRes' = ChunkTypeTryFrom(b)
    /\ pc' = "try_from_bytes"
    /\ UNCHANGED <<strIn, flags, chunk, bytes, bytesLen, tamper, res, vecLen, vecHead, newLength>>

\* ChunkType::from_str(s)
TypeFromStr ==
    /\ pc = "start"
    /\ \E s \in StrInputs :
        /\ strIn' = s
        /\ ctRes' = ChunkTypeFromStr(s)
    /\ pc' = "from_str"
    /\ UNCHANGED <<tagIn, flags, chunk, bytes, bytesLen, tamper, res, vecLen, vecHead, newLength>>

\* the accessors of the constructed ChunkType
Accessors ==
    /\ pc \in {"try_from_bytes", "from_str"}
    /\ ctRes.ok
    /\ flags' = [critical |-> is_critical(ctRes.val),
                 public |-> is_public(ctRes.val),
                 reserved_bit_valid |-> is_reserved_bit_valid(ctRes.val),
                 safe_to_copy |-> is_safe_to_copy(ctRes.val),
                 valid |-> is_valid(ctRes.val),
                 queried |-> TRUE]
    /\ pc' = "accessors"
    /\ UNCHANGED <<tagIn, strIn, ctRes, chunk, bytes, bytesLen, tamper, res, vecLen, vecHead, newLength>>

\* Chunk::new(chunk_type, d)
New ==
    /\ pc \in {"try_from_bytes", "from_str"}
    /\ ctRes.ok
    /\ bytes_of(ctRes.val) \in ChunkTags
    /\ \E d \in DataInputs : chunk' = Ok(ChunkNew(ctRes.val, d))
    /\ pc' = "new"
    /\ UNCHANGED <<tagIn, strIn, ctRes, flags, bytes, bytesLen, tamper, res, vecLen, vecHead, newLength>>

\* Chunk::new(chunk_type, d) for a vector d of n bytes that begins with h, n
\* too large to enumerate d: the length field (the crc is not represented)
NewLen ==
    /\ pc \in {"try_from_bytes", "from_str"}
    /\ ctRes.ok
    /\ bytes_of(ctRes.val) \in ChunkTags
    /\ \E n \in VecLenInputs, h \in VecHeadInputs :
        /\ vecLen' = n
        /\ vecHead' = h
        /\ newLength' = Ok(NewLength(n))
    /\ pc' = "new_len"
    /\ UNCHANGED <<tagIn, strIn, ctRes, flags, chunk, bytes, bytesLen, tamper, res>>

\* as_bytes of that chunk: the first bytes of the 12 + n bytes. Taken when the
\* length field is small enough for try_from to read within them.
AsBytesLen ==
    /\ pc = "new_len"
    /\ newLength.val[1] = 0
    /\ newLength.val[2] + 4 <= Len(vecHead)
    /\ bytes' = as_bytes_head(newLength.val, ctRes.val, vecHead)
    /\ bytesLen' = UsizeAdd(vecLen, 12)
    /\ pc' = "as_bytes_len"
    /\ UNCHANGED <<tagIn, strIn, ctRes, flags, chunk, tamper, res, vecLen, vecHead, newLength>>

\* chunk.as_bytes()
AsBytes ==
    /\ pc = "new"
    /\ bytes' = as_bytes(chunk.val)
    /\ bytesLen' = Usize(Len(as_bytes(chunk.val)))
    /\ pc' = "as_bytes"
    /\ UNCHANGED <<tagIn, strIn, ctRes, flags, chunk, tamper, res, vecLen, vecHead, newLength>>

\* the caller flips one bit of the buffer
FlipBit ==
    /\ pc = "as_bytes"
    /\ \E pos \in 1..Len(bytes), bit \in 0..7 :
        /\ bytes' = [bytes EXCEPT ![pos] = BitXor(@, Pow2(bit), 8)]
        /\ bytesLen' = bytesLen
        /\ tamper' = [kind |-> "flip", pos |-> pos, bit |-> bit]
    /\ pc' = "tampered"
    /\ UNCHANGED <<tagIn, strIn, ctRes, flags, chunk, res, vecLen, vecHead, newLength>>

\* the caller writes another crc field, as test_invalid_chunk_from_bytes does
ReplaceCrc ==
    /\ pc = "as_bytes"
    /\ \E v \in CrcInputs :
        /\ bytes' = SubSeq(bytes, 1, Len(bytes) - 4) \o to_be_bytes(v)
        /\ bytesLen' = bytesLen
        /\ tamper' = [kind |-> "crc", pos |-> Len(bytes) - 3, bit |-> 0]
    /\ pc' = "tampered"
    /\ UNCHANGED <<tagIn, strIn, ctRes, flags, chunk, res, vecLen, vecHead, newLength>>

\* the caller hands over the buffer without its last k bytes
Truncate ==
    /\ pc = "as_bytes"
    /\ \E k \in 1..Len(bytes) :
        /\ bytes' = SubSeq(bytes, 1, Len(bytes) - k)
        /\ bytesLen' = UsizeSub(bytesLen, k)
        /\ tamper' = [kind |-> "truncate", pos |-> k, bit |-> 0]
    /\ pc' = "tampered"
    /\ UNCHANGED <<tagIn, strIn, ctRes, flags, chunk, res, vecLen, vecHead, newLength>>

\* the caller hands over the buffer followed by more bytes
Extend ==
    /\ pc = "as_bytes"
    /\ \E b \in DataBytes, k \in 1..2 :
        /\ bytes' = bytes \o [i \in 1..k |-> b]
        /\ bytesLen' = UsizeAdd(bytesLen, k)
        /\ tamper' = [kind |-> "extend", pos |-> k, bit |-> 0]
    /\ pc' = "tampered"
    /\ UNCHANGED <<tagIn, strIn, ctRes, flags, chunk, res, vecLen, vecHead, newLength>>

\* Chunk::try_from(bytes)
TryFrom ==
    /\ pc \in {"as_bytes", "as_bytes_len", "tampered"}
    /\ res' = ChunkTryFrom(bytes, bytesLen)
    /\ pc' = "try_from"
    /\ UNCHANGED <<tagIn, strIn, ctRes, flags, chunk, bytes, bytesLen, tamper, vecLen, vecHead, newLength>>

Next ==
    \/ TypeTryFrom
    \/ TypeFromStr
    \/ Accessors
    \/ New
    \/ NewLen
    \/ AsBytesLen
    \/ AsBytes
    \/ FlipBit
    \/ ReplaceCrc
    \/ Truncate
    \/ Extend
    \/ TryFrom

Spec == Init /\ [][Next]_vars

(***************************************************************************)
(* The properties.                                                         *)
(***************************************************************************)
Upper == 65..90
Lower == 97..122
Alphabetic == Upper \cup Lower

AllAlphabetic(bs) == \A i \in 1..Len(bs) : bs[i] \in Alphabetic

\* the lowest position of a byte that is not alphabetic
FirstBad(bs) ==
    CHOOSE i \in 1..Len(bs) :
        /\ bs[i] \notin Alphabetic
        /\ \A j \in 1..(i - 1) : bs[j] \in Alphabetic

\* the chunk's checksum recomputed: CRC-32 of the type bytes followed by the data
CrcOf(c) == checksum(bytes_of(c.chunk_type) \o c.chunk_data)

\* the length field at the head of a buffer
Declared(bs) == from_be_bytes(SubSeq(bs, 1, 4))

\* the buffer is shorter than 12 + the declared length
ShortOfDeclared(bs, len) ==
    UsizeLt(len, UsizeAdd(AsUsize(Declared(bs)), 12))

\* C1, as stated: parsing the serialization of Chunk::new(t, d) succeeds and
\* gives a chunk with the same length, chunk_type, data and crc, whatever d.
C1_RoundTripOfAnyData ==
    /\ (pc = "try_from" /\ tamper = NoTamper /\ chunk.ok) =>
           /\ res.ok
           /\ res.val.length = chunk.val.length
           /\ res.val.chunk_type = chunk.val.chunk_type
           /\ res.val.chunk_data = chunk.val.chunk_data
           /\ res.val.crc = chunk.val.crc
    /\ (pc = "try_from" /\ tamper = NoTamper /\ newLength.ok) =>
           /\ res.ok
           /\ res.val.length = newLength.val
           /\ res.val.chunk_type = ctRes.val
           /\ Usize(Len(res.val.chunk_data)) = vecLen

\* C1, amended: for d of fewer than 2^32 bytes, parsing the serialization of
\* Chunk::new(t, d) succeeds and gives a chunk with the same length, chunk_type,
\* data and crc.
C1_RoundTrip ==
    (pc = "try_from" /\ tamper = NoTamper /\ chunk.ok) =>
        /\ res.ok
        /\ res.val.length = chunk.val.length
        /\ res.val.chunk_type = chunk.val.chunk_type
        /\ res.val.chunk_data = chunk.val.chunk_data
        /\ res.val.crc = chunk.val.crc

C1_Witness ==
    /\ pc = "try_from"
    /\ tamper = NoTamper
    /\ chunk.ok
    /\ res.ok
    /\ res.val.chunk_data = TestMessage

\* C2: every Chunk, built by Chunk::new or returned by Chunk::try_from, has crc
\* equal to the CRC-32 of its type bytes followed by its data; for "RuSt" and
\* the test message that is 2882656334.
C2_CrcInvariant ==
    /\ chunk.ok => chunk.val.crc = CrcOf(chunk.val)
    /\ res.ok => res.val.crc = CrcOf(res.val)
    /\ (chunk.ok /\ bytes_of(chunk.val.chunk_type) = RuSt /\ chunk.val.chunk_data = TestMessage)
           => chunk.val.crc = TestCrc

C2_Witness ==
    /\ pc = "try_from"
    /\ tamper.kind = "crc"
    /\ res.ok
    /\ res.val.crc = TestCrc
    /\ res.val.chunk_data = TestMessage

\* C3, as stated: length equals the byte count of the data for every chunk of
\* Chunk::new, whatever the data, and for every chunk of Chunk::try_from.
C3_LengthOfAnyData ==
    /\ chunk.ok => AsUsize(chunk.val.length) = Usize(Len(chunk.val.chunk_data))
    /\ res.ok => AsUsize(res.val.length) = Usize(Len(res.val.chunk_data))
    /\ newLength.ok => AsUsize(newLength.val) = vecLen

\* C3, amended: length equals the byte count of the data for every chunk of
\* Chunk::try_from and for every chunk of Chunk::new whose data has fewer than
\* 2^32 bytes; for longer data it is the byte count modulo 2^32.
C3_LengthInvariant ==
    /\ chunk.ok => AsUsize(chunk.val.length) = Usize(Len(chunk.val.chunk_data))
    /\ res.ok => AsUsize(res.val.length) = Usize(Len(res.val.chunk_data))
    /\ (newLength.ok /\ vecLen[1] = 0 /\ vecLen[2] = 0) => AsUsize(newLength.val) = vecLen
    /\ newLength.ok => newLength.val = <<vecLen[3], vecLen[4]>>

C3_Witness ==
    /\ pc = "new_len"
    /\ newLength.ok
    /\ vecLen = <<0, 0, 65535, 65535>>
    /\ newLength.val = U32Max

\* C4: as_bytes is the length in 4 big-endian bytes, the 4 type bytes, the data,
\* the crc in 4 big-endian bytes: 12 + data().len() bytes.
C4_Layout ==
    /\ pc = "as_bytes" =>
           LET c == chunk.val
               n == Len(c.chunk_data)
           IN  /\ Len(bytes) = 12 + n
               /\ bytesLen = Usize(12 + n)
               /\ \A i \in 1..Len(bytes) : bytes[i] \in 0..255
               /\ bytes[1] * 256 + bytes[2] = c.length[1]
               /\ bytes[3] * 256 + bytes[4] = c.length[2]
               /\ \A i \in 1..4 : bytes[4 + i] = bytes_of(c.chunk_type)[i]
               /\ \A i \in 1..n : bytes[8 + i] = c.chunk_data[i]
               /\ bytes[9 + n] * 256 + bytes[10 + n] = c.crc[1]
               /\ bytes[11 + n] * 256 + bytes[12 + n] = c.crc[2]
    /\ pc = "as_bytes_len" =>
           /\ UsizeSub(bytesLen, 12) = vecLen
           /\ bytes[1] * 256 + bytes[2] = newLength.val[1]
           /\ bytes[3] * 256 + bytes[4] = newLength.val[2]
           /\ \A i \in 1..4 : bytes[4 + i] = bytes_of(ctRes.val)[i]
           /\ \A i \in 1..Len(vecHead) : bytes[8 + i] = vecHead[i]

C4_Witness ==
    /\ pc = "as_bytes"
    /\ Len(bytes) = 54
    /\ SubSeq(bytes, 1, 8) = <<0, 0, 0, 42>> \o RuSt
    /\ SubSeq(bytes, 51, 54) = <<171, 209, 216, 78>>

\* C5: a serialized chunk with one bit of its crc field flipped, or with a crc
\* field of another value, is rejected with InvalidCrc.
C5_CrcSensitivity ==
    /\ (pc = "try_from" /\ tamper.kind = "flip" /\ tamper.pos > Len(bytes) - 4)
           => res = Err(InvalidCrc)
    /\ (pc = "try_from" /\ tamper.kind = "crc"
            /\ from_be_bytes(SubSeq(bytes, Len(bytes) - 3, Len(bytes))) # CrcOf(chunk.val))
           => res = Err(InvalidCrc)

C5_Witness ==
    /\ pc = "try_from"
    /\ tamper.kind = "flip"
    /\ tamper.pos = Len(bytes) - 3
    /\ tamper.bit = 7
    /\ res = Err(InvalidCrc)

\* C6: a serialized chunk cut short, or one whose length field is raised beyond
\* the bytes that follow, is rejected with ReadError or InvalidChunkData; a chunk
\* returned holds exactly as many data bytes as the buffer declares.
C6_LengthSensitivity ==
    /\ (pc = "try_from"
            /\ \/ tamper.kind = "truncate"
               \/ (tamper.kind = "flip" /\ tamper.pos <= 4 /\ ShortOfDeclared(bytes, bytesLen)))
           => (~res.ok /\ res.err.kind \in {"ReadError", "InvalidChunkData"})
    /\ (pc = "try_from" /\ res.ok)
           => (~ShortOfDeclared(bytes, bytesLen)
               /\ Usize(Len(res.val.chunk_data)) = AsUsize(Declared(bytes)))

C6_Witness ==
    /\ pc = "try_from"
    /\ tamper.kind = "truncate"
    /\ tamper.pos = 5
    /\ Len(chunk.val.chunk_data) >= 2
    /\ res = Err(ReadError)

\* the same with the length field raised instead
C6_WitnessRaised ==
    /\ pc = "try_from"
    /\ tamper.kind = "flip"
    /\ tamper.pos = 4
    /\ ShortOfDeclared(bytes, bytesLen)
    /\ res = Err(ReadError)

\* C7: ChunkType::try_from succeeds exactly on four alphabetic bytes, keeping
\* them; otherwise it fails with BadByte of the first byte that is not alphabetic.
C7_TryFromBytes ==
    pc = "try_from_bytes" =>
        IF AllAlphabetic(tagIn)
        THEN ctRes.ok /\ bytes_of(ctRes.val) = tagIn
        ELSE ctRes = Err(BadByte(tagIn[FirstBad(tagIn)]))

C7_Witness ==
    /\ pc = "try_from_bytes"
    /\ tagIn = <<65, 49, 122, 32>>
    /\ ctRes = Err(BadByte(49))

\* C8: is_critical, is_public, is_reserved_bit_valid hold iff bytes 0, 1, 2 are
\* uppercase, is_safe_to_copy iff byte 3 is lowercase; "RuSt" gives true, false,
\* true, true.
C8_Flags ==
    pc = "accessors" =>
        LET b == bytes_of(ctRes.val)
        IN  /\ flags.critical = (b[1] \in Upper)
            /\ flags.public = (b[2] \in Upper)
            /\ flags.reserved_bit_valid = (b[3] \in Upper)
            /\ flags.safe_to_copy = (b[4] \in Lower)
            /\ b = RuSt => (/\ flags.critical
                            /\ ~flags.public
                            /\ flags.reserved_bit_valid
                            /\ flags.safe_to_copy)

C8_Witness ==
    /\ pc = "accessors"
    /\ bytes_of(ctRes.val) = RuST
    /\ flags.critical
    /\ ~flags.safe_to_copy

\* C9: is_valid holds iff the four bytes are alphabetic and byte 2 is uppercase;
\* for a constructed ChunkType it equals is_reserved_bit_valid, and construction
\* succeeds on alphabetic bytes with a lowercase byte 2, where is_valid is false.
C9_Validity ==
    /\ pc = "try_from_bytes" =>
           /\ is_valid(ChunkType(tagIn)) = (AllAlphabetic(tagIn) /\ tagIn[3] \in Upper)
           /\ (AllAlphabetic(tagIn) /\ tagIn[3] \in Lower)
                  => (ctRes.ok /\ ~is_valid(ctRes.val))
    /\ pc = "accessors" =>
           /\ flags.valid = (bytes_of(ctRes.val)[3] \in Upper)
           /\ flags.valid = flags.reserved_bit_valid

C9_Witness ==
    /\ pc = "accessors"
    /\ bytes_of(ctRes.val) = Rust
    /\ ~flags.valid
    /\ ~flags.reserved_bit_valid

\* C10: from_str fails with BadLength(s, s.len()) whenever s is not 4 bytes
\* long, whatever its bytes; on 4 bytes it fails with BadByte of the first byte
\* that is not alphabetic, and otherwise gives what try_from gives on the bytes.
C10_FromStr ==
    pc = "from_str" =>
        IF Len(strIn) # 4 THEN ctRes = Err(BadLength(strIn, Len(strIn)))
        ELSE IF AllAlphabetic(strIn)
             THEN ctRes.ok /\ bytes_of(ctRes.val) = strIn /\ ctRes = ChunkTypeTryFrom(strIn)
             ELSE ctRes = Err(BadByte(strIn[FirstBad(strIn)]))

C10_Witness ==
    /\ pc = "from_str"
    /\ strIn = <<49, 82, 117, 83, 116>>
    /\ ctRes = Err(BadLength(strIn, 5))

====
